---- MODULE Spec2Model ----
(***************************************************************************)
(* Model of builtin/logical/pki/path_config_ca.go: the CA-write handler    *)
(* (pathCAWrite), run by concurrent requests against one shared key-value  *)
(* storage, and the issuer-configuration handlers (pathCAIssuersRead,      *)
(* pathCAIssuersWrite).  A CA-write request is atomic between two storage  *)
(* operations; every storage operation, the conversion to storage form and *)
(* the CRL rebuild may fail.                                               *)
(***************************************************************************)
EXTENDS Integers, Sequences, FiniteSets, TLC

\* ------------------------------------------------------------------ bounds
NumCerts == 2           \* distinct certificates (serials 1..NumCerts)
NumReq == 2             \* request slots running concurrently
NumIssuers == 2         \* issuers that may exist (identifiers id-1..)

\* ------------------------------------------------------------ the requests
Requests == 1..NumReq

VARIABLES
    storage,        \* req.Storage: key -> <<>> (absent) or <<value>>
    pc,             \* per request: position in pathCAWrite
    parsedBundle,   \* per request: local parsedBundle
    entry,          \* per request: local entry
    resp,           \* per request: returned *logical.Response
    err,            \* per request: returned error
    puts,           \* per request: its calls of Storage.Put, in order
    crlCalls,       \* per request: its calls of buildCRL, in order
    bundlePutBy,    \* history: the running request that last wrote
                    \* config/ca_bundle (0: none, or one that has returned)
    samePut,        \* history: config/ca_bundle and ca were last written
                    \* by the same request
    hist,           \* history of the sequential client (SeqSpec only)
    issuers,        \* the issuers that exist: a set of [id, name]
    iss             \* the latest issuer-configuration request and its result

vars == <<storage, pc, parsedBundle, entry, resp, err, puts, crlCalls,
          bundlePutBy, samePut, hist, issuers, iss>>

\* ------------------------------------------------------------ storage keys
KeyBundle == "config/ca_bundle"
KeyCA == "ca"
KeyIssuers == "config/issuers"
StorageKeys == {KeyBundle, KeyCA, KeyIssuers}

\* --------------------------------------------------- certutil (sdk helper)
UnknownPrivateKey == "unknown"
\* The recognised kinds of private key.  The handler tests the kind
\* against UnknownPrivateKey only and treats every recognised kind alike;
\* one of them stands for all.
KeyTypes == {"rsa"}

\* A certificate as submitted: serial and basic-constraint CA flag.
NoCert == [id |-> 0, isCA |-> FALSE]
Certs == [id : 1..NumCerts, isCA : BOOLEAN]

\* The values of the pem_bundle field, by what the text contains: the
\* private key block (if any, by kind), the leaf certificate block (if any)
\* and whether it holds data that decodes to neither.  "" contains nothing.
PemBundles ==
    [key : {"none", UnknownPrivateKey} \cup KeyTypes,
     cert : {NoCert} \cup Certs,
     junk : BOOLEAN]
EmptyPem == [key |-> "none", cert |-> NoCert, junk |-> FALSE]

\* Raw (DER) bytes of a certificate block, and x509 decoding of them.
BlockBytes(c) == <<"der", c.id, c.isCA>>
ParseCertificate(bytes) == [id |-> bytes[2], IsCA |-> bytes[3]]

\* PEM armour of raw certificate bytes and its inverse.
PEMEncode(bytes) == <<"-----BEGIN CERTIFICATE-----", bytes>>
PEMDecode(text) == text[2]

\* errors
NoErr == [kind |-> "none", msg |-> ""]
UserError(m) == [kind |-> "user", msg |-> m]
InternalError(m) == [kind |-> "internal", msg |-> m]
OpError(m) == [kind |-> "op", msg |-> m]

NilBundle ==
    [PrivateKey |-> FALSE, PrivateKeyType |-> UnknownPrivateKey,
     Certificate |-> <<>>, CertificateBytes |-> <<>>]

\* certutil.ParsePEMBundle.  fault is a failure inside the library.
ParsePEMBundle(pem, fault) ==
    IF fault
      THEN [err |-> InternalError("library fault"), bundle |-> NilBundle]
    ELSE IF pem = EmptyPem
      THEN [err |-> UserError("empty pem bundle"), bundle |-> NilBundle]
    ELSE IF pem.junk
      THEN [err |-> UserError("no data found in PEM block"),
            bundle |-> NilBundle]
    ELSE [err |-> NoErr,
          bundle |->
            [PrivateKey |-> pem.key # "none",
             PrivateKeyType |->
                IF pem.key = "none" THEN UnknownPrivateKey ELSE pem.key,
             Certificate |->
                IF pem.cert = NoCert THEN <<>>
                ELSE <<ParseCertificate(BlockBytes(pem.cert))>>,
             CertificateBytes |->
                IF pem.cert = NoCert THEN <<>> ELSE BlockBytes(pem.cert)]]

\* ParsedCertBundle.ToCertBundle: the storage form, PEM-armoured.
ToCertBundle(p) ==
    [PrivateKeyType |-> p.PrivateKeyType,
     Certificate |-> PEMEncode(p.CertificateBytes)]

\* logical.StorageEntryJSON and the decoding of such an entry's value.
StorageEntryJSON(k, v) == [Key |-> k, Value |-> <<"json", v>>]
DecodeJSON(value) == value[2]

NilEntry == [Key |-> "", Value |-> <<>>]

\* logical.Response values
NilResp == [kind |-> "nil", msg |-> ""]
ErrorResponse(m) == [kind |-> "error", msg |-> m]

\* req.Storage.Put on the shared storage
Put(s, e) == [s EXCEPT ![e.Key] = <<e.Value>>]

\* ---------------------------------------------------------- pathCAWrite
MsgEmpty == "'pem_bundle' was empty"
MsgNoKey == "private key not found in the PEM bundle"
MsgUnknownKey == "unknown private key found in the PEM bundle"
MsgNoCert == "no certificate found in the PEM bundle"
MsgNotCA == "the given certificate is not marked for CA use and cannot be used with this backend"


Returned == {"ret37", "ret44", "ret46", "ret51", "ret55", "ret59", "ret63",
             "ret68", "ret73", "ret77", "ret86", "ret91"}
Idle(r) == pc[r] = "idle" \/ pc[r] \in Returned

\* What the collaborators do during lines 34-73 of one request: nothing
\* goes wrong, the PEM library faults, ToCertBundle fails or the JSON
\* encoding fails.
Envs == {"ok", "fault", "conv", "json"}

\* The handler returning at line `at` (or going on: at = "go").
Out(at, rs, e) ==
    [pc |-> at, resp |-> rs, err |-> e,
     parsedBundle |-> NilBundle, entry |-> NilEntry]
Go == Out("go", NilResp, NoErr)

\* InputCheck with every parse failure turned into an error response.
InputCheck_AllUser(pem, parsed) ==
    IF pem = EmptyPem
      THEN Out("ret37", ErrorResponse(MsgEmpty), NoErr)
    ELSE IF parsed.err # NoErr
      THEN Out("ret46", ErrorResponse(parsed.err.msg), NoErr)
    ELSE Go

\* Lines 36-48: the empty input, then the result of ParsePEMBundle.
InputCheck(pem, parsed) ==
    IF pem = EmptyPem
      THEN Out("ret37", ErrorResponse(MsgEmpty), NoErr)
    ELSE IF parsed.err # NoErr
      THEN IF parsed.err.kind = "internal"
             THEN Out("ret44", NilResp, parsed.err)
             ELSE Out("ret46", ErrorResponse(parsed.err.msg), NoErr)
    ELSE Go

\* BundleCheck without the check of the CA flag.
BundleCheck_NoCAFlag(p) ==
    IF ~p.PrivateKey
      THEN Out("ret51", ErrorResponse(MsgNoKey), NoErr)
    ELSE IF p.PrivateKeyType = UnknownPrivateKey
      THEN Out("ret55", ErrorResponse(MsgUnknownKey), NoErr)
    ELSE IF p.Certificate = <<>>
      THEN Out("ret59", ErrorResponse(MsgNoCert), NoErr)
    ELSE Go

\* BundleCheck looking at the certificate before the private key.
BundleCheck_CertFirst(p) ==
    IF p.Certificate = <<>>
      THEN Out("ret59", ErrorResponse(MsgNoCert), NoErr)
    ELSE IF ~p.Certificate[1].IsCA
      THEN Out("ret63", ErrorResponse(MsgNotCA), NoErr)
    ELSE IF ~p.PrivateKey
      THEN Out("ret51", ErrorResponse(MsgNoKey), NoErr)
    ELSE IF p.PrivateKeyType = UnknownPrivateKey
      THEN Out("ret55", ErrorResponse(MsgUnknownKey), NoErr)
    ELSE Go

\* Lines 50-64: the checks on the parsed bundle.
BundleCheck(p) ==
    IF ~p.PrivateKey
      THEN Out("ret51", ErrorResponse(MsgNoKey), NoErr)
    ELSE IF p.PrivateKeyType = UnknownPrivateKey
      THEN Out("ret55", ErrorResponse(MsgUnknownKey), NoErr)
    ELSE IF p.Certificate = <<>>
      THEN Out("ret59", ErrorResponse(MsgNoCert), NoErr)
    ELSE IF ~p.Certificate[1].IsCA
      THEN Out("ret63", ErrorResponse(MsgNotCA), NoErr)
    ELSE Go

\* The outcome of lines 34-73 on one input: where the handler returns (or
\* that it goes on to the first Put) with its response, error and locals.
ValidateResult(pem, env) ==
    LET parsed == ParsePEMBundle(pem, env = "fault")
        p == parsed.bundle
        a == InputCheck(pem, parsed)
        b == BundleCheck(p)
    IN  IF a.pc # "go" THEN a
        ELSE IF b.pc # "go" THEN b
        ELSE IF env = "conv"
          THEN Out("ret68", NilResp,
                   OpError("error converting raw values into cert bundle"))
        ELSE IF env = "json"
          THEN Out("ret73", NilResp, OpError("json encoding failed"))
        ELSE [pc |-> "put_bundle", resp |-> NilResp, err |-> NoErr,
              parsedBundle |-> p,
              entry |-> StorageEntryJSON(KeyBundle, ToCertBundle(p))]

\* Every outcome of lines 34-73, over all inputs and collaborators.
ValidateOutcomes == {ValidateResult(pem, env) : pem \in PemBundles, env \in Envs}

\* Lines 34-73: a request arrives in slot r and runs up to the first Put;
\* res is the outcome of these lines on its input.
CAWriteBegin(r, res) ==
    /\ Idle(r)
    /\ pc' = [pc EXCEPT ![r] = res.pc]
    /\ resp' = [resp EXCEPT ![r] = res.resp]
    /\ err' = [err EXCEPT ![r] = res.err]
    /\ parsedBundle' = [parsedBundle EXCEPT ![r] = res.parsedBundle]
    /\ entry' = [entry EXCEPT ![r] = res.entry]
    /\ puts' = [puts EXCEPT ![r] = <<>>]
    /\ crlCalls' = [crlCalls EXCEPT ![r] = <<>>]
    /\ bundlePutBy' = IF bundlePutBy = r THEN 0 ELSE bundlePutBy
    /\ UNCHANGED <<storage, samePut>>

\* The error of a failed Storage.Put.
PutError == OpError("storage put failed")

\* CAWritePutBundle aiming entry at the certificate of the bundle that
\* config/ca_bundle held before this Put, when it held one.
CAWritePutBundle_Stale(r, ok) ==
    /\ pc[r] = "put_bundle"
    /\ IF ok
         THEN /\ storage' = Put(storage, entry[r])
              /\ pc' = [pc EXCEPT ![r] = "put_ca"]
              /\ entry' = [entry EXCEPT ![r] =
                    [Key |-> KeyCA,
                     Value |->
                        IF storage[KeyBundle] = <<>>
                          THEN parsedBundle[r].CertificateBytes
                          ELSE PEMDecode(
                            DecodeJSON(storage[KeyBundle][1]).Certificate)]]
              /\ bundlePutBy' = r
              /\ samePut' = FALSE
              /\ UNCHANGED <<err, parsedBundle>>
         ELSE /\ pc' = [pc EXCEPT ![r] = "ret77"]
              /\ err' = [err EXCEPT ![r] = PutError]
              /\ parsedBundle' = [parsedBundle EXCEPT ![r] = NilBundle]
              /\ entry' = [entry EXCEPT ![r] = NilEntry]
              /\ UNCHANGED <<storage, bundlePutBy, samePut>>
    /\ puts' = [puts EXCEPT ![r] = Append(@, [key |-> KeyBundle, ok |-> ok])]
    /\ UNCHANGED <<resp, crlCalls>>

\* CAWritePutBundle returning success at once when config/ca_bundle
\* already holds the bundle to write.
CAWritePutBundle_SkipSame(r, ok) ==
    /\ pc[r] = "put_bundle"
    /\ IF storage[KeyBundle] = <<entry[r].Value>>
         THEN /\ pc' = [pc EXCEPT ![r] = "ret91"]
              /\ parsedBundle' = [parsedBundle EXCEPT ![r] = NilBundle]
              /\ entry' = [entry EXCEPT ![r] = NilEntry]
              /\ UNCHANGED <<storage, err, puts, bundlePutBy, samePut>>
         ELSE /\ IF ok
                   THEN /\ storage' = Put(storage, entry[r])
                        /\ pc' = [pc EXCEPT ![r] = "put_ca"]
                        /\ entry' = [entry EXCEPT ![r] =
                              [Key |-> KeyCA,
                               Value |-> parsedBundle[r].CertificateBytes]]
                        /\ bundlePutBy' = r
                        /\ samePut' = FALSE
                        /\ UNCHANGED <<err, parsedBundle>>
                   ELSE /\ pc' = [pc EXCEPT ![r] = "ret77"]
                        /\ err' = [err EXCEPT ![r] = PutError]
                        /\ parsedBundle' =
                              [parsedBundle EXCEPT ![r] = NilBundle]
                        /\ entry' = [entry EXCEPT ![r] = NilEntry]
                        /\ UNCHANGED <<storage, bundlePutBy, samePut>>
              /\ puts' = [puts EXCEPT ![r] =
                            Append(@, [key |-> KeyBundle, ok |-> ok])]
    /\ UNCHANGED <<resp, crlCalls>>

\* CAWritePutBundle going on to the Put of ca whatever the Put returned.
CAWritePutBundle_IgnoreErr(r, ok) ==
    /\ pc[r] = "put_bundle"
    /\ IF ok
         THEN /\ storage' = Put(storage, entry[r])
              /\ bundlePutBy' = r
              /\ samePut' = FALSE
         ELSE UNCHANGED <<storage, bundlePutBy, samePut>>
    /\ pc' = [pc EXCEPT ![r] = "put_ca"]
    /\ entry' = [entry EXCEPT ![r] =
          [Key |-> KeyCA, Value |-> parsedBundle[r].CertificateBytes]]
    /\ puts' = [puts EXCEPT ![r] = Append(@, [key |-> KeyBundle, ok |-> ok])]
    /\ UNCHANGED <<err, parsedBundle, resp, crlCalls>>

\* Lines 75-83: Put of config/ca_bundle; on success entry is re-aimed at ca.
CAWritePutBundle(r, ok) ==
    /\ pc[r] = "put_bundle"
    /\ IF ok
         THEN /\ storage' = Put(storage, entry[r])
              /\ pc' = [pc EXCEPT ![r] = "put_ca"]
              /\ entry' = [entry EXCEPT ![r] =
                    [Key |-> KeyCA,
                     Value |-> parsedBundle[r].CertificateBytes]]
              /\ bundlePutBy' = r
              /\ samePut' = FALSE
              /\ UNCHANGED <<err, parsedBundle>>
         ELSE /\ pc' = [pc EXCEPT ![r] = "ret77"]
              /\ err' = [err EXCEPT ![r] = PutError]
              /\ parsedBundle' = [parsedBundle EXCEPT ![r] = NilBundle]
              /\ entry' = [entry EXCEPT ![r] = NilEntry]
              /\ UNCHANGED <<storage, bundlePutBy, samePut>>
    /\ puts' = [puts EXCEPT ![r] = Append(@, [key |-> KeyBundle, ok |-> ok])]
    /\ UNCHANGED <<resp, crlCalls>>

\* CAWritePutCA going on to buildCRL whatever the Put returned.
CAWritePutCA_IgnoreErr(r, ok) ==
    /\ pc[r] = "put_ca"
    /\ IF ok
         THEN /\ storage' = Put(storage, entry[r])
              /\ samePut' = (bundlePutBy = r)
         ELSE UNCHANGED <<storage, samePut>>
    /\ pc' = [pc EXCEPT ![r] = "build_crl"]
    /\ parsedBundle' = [parsedBundle EXCEPT ![r] = NilBundle]
    /\ entry' = [entry EXCEPT ![r] = NilEntry]
    /\ puts' = [puts EXCEPT ![r] = Append(@, [key |-> KeyCA, ok |-> ok])]
    /\ UNCHANGED <<err, resp, crlCalls, bundlePutBy>>

\* CAWritePutCA writing ca only when the key holds nothing yet.
CAWritePutCA_CreateOnly(r, ok) ==
    /\ pc[r] = "put_ca"
    /\ IF ok
         THEN /\ storage' = IF storage[KeyCA] = <<>>
                              THEN Put(storage, entry[r]) ELSE storage
              /\ pc' = [pc EXCEPT ![r] = "build_crl"]
              /\ samePut' = (bundlePutBy = r)
              /\ UNCHANGED err
         ELSE /\ pc' = [pc EXCEPT ![r] = "ret86"]
              /\ err' = [err EXCEPT ![r] = PutError]
              /\ UNCHANGED <<storage, samePut>>
    /\ parsedBundle' = [parsedBundle EXCEPT ![r] = NilBundle]
    /\ entry' = [entry EXCEPT ![r] = NilEntry]
    /\ puts' = [puts EXCEPT ![r] = Append(@, [key |-> KeyCA, ok |-> ok])]
    /\ UNCHANGED <<resp, crlCalls, bundlePutBy>>

\* Lines 84-87: Put of ca.
CAWritePutCA(r, ok) ==
    /\ pc[r] = "put_ca"
    /\ IF ok
         THEN /\ storage' = Put(storage, entry[r])
              /\ pc' = [pc EXCEPT ![r] = "build_crl"]
              /\ samePut' = (bundlePutBy = r)
              /\ UNCHANGED err
         ELSE /\ pc' = [pc EXCEPT ![r] = "ret86"]
              /\ err' = [err EXCEPT ![r] = PutError]
              /\ UNCHANGED <<storage, samePut>>
    /\ parsedBundle' = [parsedBundle EXCEPT ![r] = NilBundle]
    /\ entry' = [entry EXCEPT ![r] = NilEntry]
    /\ puts' = [puts EXCEPT ![r] = Append(@, [key |-> KeyCA, ok |-> ok])]
    /\ UNCHANGED <<resp, crlCalls, bundlePutBy>>

\* The error of a failed buildCRL.
CRLError == OpError("error building CRL")

\* CAWriteBuildCRL calling buildCRL with forceRegenerate = false.
CAWriteBuildCRL_NoForce(r, ok) ==
    /\ pc[r] = "build_crl"
    /\ crlCalls' = [crlCalls EXCEPT ![r] =
            Append(@, [forceRegenerate |-> FALSE, ok |-> ok])]
    /\ pc' = [pc EXCEPT ![r] = "ret91"]
    /\ err' = [err EXCEPT ![r] = IF ok THEN NoErr ELSE CRLError]
    /\ UNCHANGED <<storage, resp, parsedBundle, entry, puts,
                   bundlePutBy, samePut>>

\* CAWriteBuildCRL dropping the error of buildCRL.
CAWriteBuildCRL_Swallow(r, ok) ==
    /\ pc[r] = "build_crl"
    /\ crlCalls' = [crlCalls EXCEPT ![r] =
            Append(@, [forceRegenerate |-> TRUE, ok |-> ok])]
    /\ pc' = [pc EXCEPT ![r] = "ret91"]
    /\ err' = [err EXCEPT ![r] = NoErr]
    /\ UNCHANGED <<storage, resp, parsedBundle, entry, puts,
                   bundlePutBy, samePut>>

\* Lines 89-91: buildCRL(ctx, b, req, true); its error is the result.
CAWriteBuildCRL(r, ok) ==
    /\ pc[r] = "build_crl"
    /\ crlCalls' = [crlCalls EXCEPT ![r] =
            Append(@, [forceRegenerate |-> TRUE, ok |-> ok])]
    /\ pc' = [pc EXCEPT ![r] = "ret91"]
    /\ err' = [err EXCEPT ![r] = IF ok THEN NoErr ELSE CRLError]
    /\ UNCHANGED <<storage, resp, parsedBundle, entry, puts,
                   bundlePutBy, samePut>>

\* ------------------------------------------------ the issuer registry
DefaultRef == "default"
IssuerId(i) == "id-" \o ToString(i)
IssuerName(i) == "name-" \o ToString(i)

\* The issuer populations, up to the choice of identifiers: n issuers
\* exist and m of them are named.
IssuerPopulations ==
    {{[id |-> IssuerId(i),
       name |-> IF i <= nm[2] THEN IssuerName(i) ELSE ""] : i \in 1..nm[1]} :
        nm \in {p \in (0..NumIssuers) \X (0..NumIssuers) : p[2] <= p[1]}}

\* The values of the "default" field of an issuer-config write.
Refs ==
    {"", DefaultRef, "no-such-issuer"}
    \cup {IssuerId(i) : i \in 1..NumIssuers}
    \cup {IssuerName(i) : i \in 1..NumIssuers}

\* What the storage does during one issuer-config request: nothing goes
\* wrong, its Get fails or its Put fails.
IssEnvs == {"ok", "get", "put"}
GetError == OpError("storage get failed")

\* getIssuersConfig: the stored configuration, or the empty one.
GetIssuersConfig(s) ==
    IF s[KeyIssuers] = <<>> THEN [DefaultIssuerId |-> ""]
    ELSE DecodeJSON(s[KeyIssuers][1])

\* resolveIssuerReference: the alias, then the names, then the identifiers.
ResolveIssuerReference(s, pop, ref, env) ==
    IF env = "get" THEN [err |-> GetError, id |-> ""]
    ELSE IF ref = DefaultRef
      THEN [err |-> NoErr, id |-> GetIssuersConfig(s).DefaultIssuerId]
    ELSE IF ref # "" /\ \E i \in pop : i.name = ref
      THEN [err |-> NoErr, id |-> (CHOOSE i \in pop : i.name = ref).id]
    ELSE IF \E i \in pop : i.id = ref
      THEN [err |-> NoErr, id |-> ref]
    ELSE [err |-> OpError("unable to find PKI issuer for reference"),
          id |-> ""]

\* updateDefaultIssuerId: the new configuration put at config/issuers.
UpdateDefaultIssuerId(s, id, env) ==
    IF env = "put" THEN [err |-> PutError, storage |-> s]
    ELSE [err |-> NoErr,
          storage |-> Put(s, StorageEntryJSON(KeyIssuers,
                                              [DefaultIssuerId |-> id]))]

\* A response carrying Data["default"] = d.
DataResponse(d) == [kind |-> "data", msg |-> d]

MsgInvalidIssuer == "Invalid issuer specification; must be non-empty and can't be 'default'."
MsgLoading == "Error loading issuers configuration: "
MsgResolving == "Error resolving issuer reference: "
MsgUpdating == "Error updating issuer configuration: "

\* IssuersReadResult creating the configuration when there is none.
IssuersReadResult_LazyCreate(s, env) ==
    IF env = "get"
      THEN [resp |-> ErrorResponse(MsgLoading \o GetError.msg),
            err |-> NoErr, storage |-> s, resolved |-> FALSE]
      ELSE [resp |-> DataResponse(GetIssuersConfig(s).DefaultIssuerId),
            err |-> NoErr,
            storage |->
                IF s[KeyIssuers] # <<>> THEN s
                ELSE Put(s, StorageEntryJSON(KeyIssuers,
                                             [DefaultIssuerId |-> ""])),
            resolved |-> FALSE]

\* Lines 126-137: the result of pathCAIssuersRead.
IssuersReadResult(s, env) ==
    IF env = "get"
      THEN [resp |-> ErrorResponse(MsgLoading \o GetError.msg),
            err |-> NoErr, storage |-> s, resolved |-> FALSE]
      ELSE [resp |-> DataResponse(GetIssuersConfig(s).DefaultIssuerId),
            err |-> NoErr, storage |-> s, resolved |-> FALSE]

\* IssuersWriteResult rejecting only the empty value.
IssuersWriteResult_EmptyOnly(s, pop, newDefault, env) ==
    LET parsedIssuer == ResolveIssuerReference(s, pop, newDefault, env)
        upd == UpdateDefaultIssuerId(s, parsedIssuer.id, env)
    IN  IF newDefault = ""
          THEN [resp |-> ErrorResponse(MsgInvalidIssuer), err |-> NoErr,
                storage |-> s, resolved |-> FALSE]
        ELSE IF parsedIssuer.err # NoErr
          THEN [resp |-> ErrorResponse(MsgResolving \o parsedIssuer.err.msg),
                err |-> NoErr, storage |-> s, resolved |-> TRUE]
        ELSE IF upd.err # NoErr
          THEN [resp |-> ErrorResponse(MsgUpdating \o upd.err.msg),
                err |-> NoErr, storage |-> s, resolved |-> TRUE]
        ELSE [resp |-> DataResponse(parsedIssuer.id), err |-> NoErr,
              storage |-> upd.storage, resolved |-> TRUE]

\* IssuersWriteResult storing the submitted value as it was given.
IssuersWriteResult_Verbatim(s, pop, newDefault, env) ==
    LET upd == UpdateDefaultIssuerId(s, newDefault, env)
    IN  IF newDefault = ""
          THEN [resp |-> ErrorResponse(MsgInvalidIssuer), err |-> NoErr,
                storage |-> s, resolved |-> FALSE]
        ELSE IF upd.err # NoErr
          THEN [resp |-> ErrorResponse(MsgUpdating \o upd.err.msg),
                err |-> NoErr, storage |-> s, resolved |-> FALSE]
        ELSE [resp |-> DataResponse(newDefault), err |-> NoErr,
              storage |-> upd.storage, resolved |-> FALSE]

\* IssuersWriteResult answering with the submitted value.
IssuersWriteResult_EchoInput(s, pop, newDefault, env) ==
    LET parsedIssuer == ResolveIssuerReference(s, pop, newDefault, env)
        upd == UpdateDefaultIssuerId(s, parsedIssuer.id, env)
    IN  IF newDefault = "" \/ newDefault = DefaultRef
          THEN [resp |-> ErrorResponse(MsgInvalidIssuer), err |-> NoErr,
                storage |-> s, resolved |-> FALSE]
        ELSE IF parsedIssuer.err # NoErr
          THEN [resp |-> ErrorResponse(MsgResolving \o parsedIssuer.err.msg),
                err |-> NoErr, storage |-> s, resolved |-> TRUE]
        ELSE IF upd.err # NoErr
          THEN [resp |-> ErrorResponse(MsgUpdating \o upd.err.msg),
                err |-> NoErr, storage |-> s, resolved |-> TRUE]
        ELSE [resp |-> DataResponse(newDefault), err |-> NoErr,
              storage |-> upd.storage, resolved |-> TRUE]

\* IssuersWriteResult going on to the update when the resolution failed.
IssuersWriteResult_IgnoreResolveErr(s, pop, newDefault, env) ==
    LET parsedIssuer == ResolveIssuerReference(s, pop, newDefault, env)
        upd == UpdateDefaultIssuerId(s, parsedIssuer.id, env)
    IN  IF newDefault = "" \/ newDefault = DefaultRef
          THEN [resp |-> ErrorResponse(MsgInvalidIssuer), err |-> NoErr,
                storage |-> s, resolved |-> FALSE]
        ELSE IF upd.err # NoErr
          THEN [resp |-> ErrorResponse(MsgUpdating \o upd.err.msg),
                err |-> NoErr, storage |-> s, resolved |-> TRUE]
        ELSE [resp |-> DataResponse(parsedIssuer.id), err |-> NoErr,
              storage |-> upd.storage, resolved |-> TRUE]

\* Lines 139-160: the result of pathCAIssuersWrite.
IssuersWriteResult(s, pop, newDefault, env) ==
    LET parsedIssuer == ResolveIssuerReference(s, pop, newDefault, env)
        upd == UpdateDefaultIssuerId(s, parsedIssuer.id, env)
    IN  IF newDefault = "" \/ newDefault = DefaultRef
          THEN [resp |-> ErrorResponse(MsgInvalidIssuer), err |-> NoErr,
                storage |-> s, resolved |-> FALSE]
        ELSE IF parsedIssuer.err # NoErr
          THEN [resp |-> ErrorResponse(MsgResolving \o parsedIssuer.err.msg),
                err |-> NoErr, storage |-> s, resolved |-> TRUE]
        ELSE IF upd.err # NoErr
          THEN [resp |-> ErrorResponse(MsgUpdating \o upd.err.msg),
                err |-> NoErr, storage |-> s, resolved |-> TRUE]
        ELSE [resp |-> DataResponse(parsedIssuer.id), err |-> NoErr,
              storage |-> upd.storage, resolved |-> TRUE]

\* One issuer-config read in storage state s: its effect on the storage.
pathCAIssuersRead(res) ==
    /\ storage' = res.storage
    /\ UNCHANGED <<pc, parsedBundle, entry, resp, err, puts, crlCalls,
                   bundlePutBy, samePut, hist, issuers>>

\* One issuer-config write: its effect on the storage.
pathCAIssuersWrite(res) ==
    /\ storage' = res.storage
    /\ UNCHANGED <<pc, parsedBundle, entry, resp, err, puts, crlCalls,
                   bundlePutBy, samePut, hist, issuers>>

\* ------------------------------------------------------- specifications
NoIss ==
    [op |-> "none", arg |-> "", env |-> "ok", resp |-> NilResp,
     err |-> NoErr, resolved |-> FALSE, prevWrite |-> "", prevArg |-> ""]
NoPrev == [valid |-> FALSE, pem |-> EmptyPem, at |-> "idle", err |-> NoErr]
NoHist ==
    [pem |-> EmptyPem, env |-> "ok",
     pre |-> [k \in StorageKeys |-> <<>>], prev |-> NoPrev]

InitCA ==
    /\ storage = [k \in StorageKeys |-> <<>>]
    /\ pc = [r \in Requests |-> "idle"]
    /\ parsedBundle = [r \in Requests |-> NilBundle]
    /\ entry = [r \in Requests |-> NilEntry]
    /\ resp = [r \in Requests |-> NilResp]
    /\ err = [r \in Requests |-> NoErr]
    /\ puts = [r \in Requests |-> <<>>]
    /\ crlCalls = [r \in Requests |-> <<>>]
    /\ bundlePutBy = 0
    /\ samePut = FALSE
    /\ hist = NoHist
    /\ iss = NoIss

\* No issuer exists.
Init == InitCA /\ issuers = {}

\* Concurrent requests: any slot takes a step at any time.
Begin == \E r \in Requests, res \in ValidateOutcomes :
        CAWriteBegin(r, res) /\ UNCHANGED <<hist, issuers, iss>>
PutBundle == \E r \in Requests, ok \in BOOLEAN :
        CAWritePutBundle(r, ok) /\ UNCHANGED <<hist, issuers, iss>>
PutCA == \E r \in Requests, ok \in BOOLEAN :
        CAWritePutCA(r, ok) /\ UNCHANGED <<hist, issuers, iss>>
BuildCRL == \E r \in Requests, ok \in BOOLEAN :
        CAWriteBuildCRL(r, ok) /\ UNCHANGED <<hist, issuers, iss>>

Next == Begin \/ PutBundle \/ PutCA \/ BuildCRL

Spec == Init /\ [][Next]_vars

\* One client issuing requests one after the other (slot 1), with the
\* history of the running request: its input, the collaborators' behaviour,
\* the storage when it began and, when it reaches the Puts directly
\* after a request that passed validation, that request and how it ended.
PassedValidation == {"ret68", "ret73", "ret77", "ret86", "ret91"}

SeqBegin == \E pem \in PemBundles, env \in Envs :
    /\ CAWriteBegin(1, ValidateResult(pem, env))
    /\ hist' = [pem |-> pem, env |-> env, pre |-> storage,
                prev |-> IF /\ pc[1] \in PassedValidation
                            /\ ValidateResult(pem, env).pc = "put_bundle"
                           THEN [valid |-> TRUE, pem |-> hist.pem,
                                 at |-> pc[1], err |-> err[1]]
                           ELSE NoPrev]
    /\ UNCHANGED <<issuers, iss>>
SeqPutBundle == \E ok \in BOOLEAN : CAWritePutBundle(1, ok)
    /\ UNCHANGED <<hist, issuers, iss>>
SeqPutCA == \E ok \in BOOLEAN : CAWritePutCA(1, ok)
    /\ UNCHANGED <<hist, issuers, iss>>
SeqBuildCRL == \E ok \in BOOLEAN : CAWriteBuildCRL(1, ok)
    /\ UNCHANGED <<hist, issuers, iss>>

SeqNext == SeqBegin \/ SeqPutBundle \/ SeqPutCA \/ SeqBuildCRL

SeqSpec == Init /\ [][SeqNext]_vars

\* One client of the issuer configuration, over any issuer population,
\* with the latest request, its result and, when the request before it made
\* an identifier the default, that identifier and the reference given.
IssInit == InitCA /\ issuers \in IssuerPopulations

MadeDefault ==
    IF iss.op = "write" /\ iss.resp.kind = "data" THEN iss.resp.msg ELSE ""

IssRead == \E env \in IssEnvs :
    LET res == IssuersReadResult(storage, env)
    IN  /\ pathCAIssuersRead(res)
        /\ iss' = [op |-> "read", arg |-> "", env |-> env,
                   resp |-> res.resp, err |-> res.err,
                   resolved |-> res.resolved, prevWrite |-> MadeDefault,
                   prevArg |-> IF MadeDefault = "" THEN "" ELSE iss.arg]
IssWrite == \E newDefault \in Refs, env \in IssEnvs :
    LET res == IssuersWriteResult(storage, issuers, newDefault, env)
    IN  /\ pathCAIssuersWrite(res)
        /\ iss' = [op |-> "write", arg |-> newDefault, env |-> env,
                   resp |-> res.resp, err |-> res.err,
                   resolved |-> res.resolved, prevWrite |-> MadeDefault,
                   prevArg |-> IF MadeDefault = "" THEN "" ELSE iss.arg]

IssNext == IssRead \/ IssWrite

IssSpec == IssInit /\ [][IssNext]_vars

\* The issuer configuration next to one client issuing CA-writes (slot 1);
\* of an issuer-config request only the operation and its response are
\* recorded.
FrameRead == \E env \in IssEnvs :
    LET res == IssuersReadResult(storage, env)
    IN  /\ pathCAIssuersRead(res)
        /\ iss' = [NoIss EXCEPT !.op = "read", !.resp = res.resp]
FrameWrite == \E newDefault \in Refs, env \in IssEnvs :
    LET res == IssuersWriteResult(storage, issuers, newDefault, env)
    IN  /\ pathCAIssuersWrite(res)
        /\ iss' = [NoIss EXCEPT !.op = "write", !.resp = res.resp]
FrameCABegin == \E res \in ValidateOutcomes :
        CAWriteBegin(1, res) /\ UNCHANGED <<hist, issuers, iss>>

FrameNext ==
    FrameRead \/ FrameWrite \/ FrameCABegin \/ SeqPutBundle \/ SeqPutCA
    \/ SeqBuildCRL

FrameSpec == IssInit /\ [][FrameNext]_vars

TypeOK ==
    /\ DOMAIN storage = StorageKeys
    /\ \A r \in Requests : pc[r] \in Returned \cup
            {"idle", "put_bundle", "put_ca", "build_crl"}

\* ------------------------------------------------------------- the claims
\* What a submitted bundle is, said of the input alone.
LeafBytes(pem) == BlockBytes(pem.cert)
ValidPem(pem) ==
    /\ ~pem.junk
    /\ pem.key \in KeyTypes
    /\ pem.cert # NoCert
    /\ pem.cert.isCA

\* The validation steps an input fails, numbered in the order empty input,
\* PEM parse, private key absent, private key type Unknown, certificate
\* absent, certificate not marked CA.
FailedSteps(pem, env) ==
    {i \in 1..6 :
        \/ i = 1 /\ pem = EmptyPem
        \/ i = 2 /\ (pem = EmptyPem \/ pem.junk \/ env = "fault")
        \/ i = 3 /\ pem.key = "none"
        \/ i = 4 /\ pem.key \in {"none", UnknownPrivateKey}
        \/ i = 5 /\ pem.cert = NoCert
        \/ i = 6 /\ pem.cert # NoCert /\ ~pem.cert.isCA}
FirstFailed(pem, env) ==
    CHOOSE i \in FailedSteps(pem, env) :
        \A j \in FailedSteps(pem, env) : i <= j

\* The input fails a user-input validation step: it is empty, or the
\* library does not fault and the text or the bundle in it is not valid.
UserInvalid(pem, env) ==
    \/ pem = EmptyPem
    \/ env # "fault" /\ ~ValidPem(pem)

\* The values of config/ca_bundle and ca after one successful CA-write of pem.
BundleValue(pem) ==
    StorageEntryJSON(KeyBundle,
                     ToCertBundle(ParsePEMBundle(pem, FALSE).bundle)).Value
\* The certificate bytes held in a stored bundle value.
CertInBundle(value) == PEMDecode(DecodeJSON(value).Certificate)

\* C1: a CA-write whose input fails a user-input validation step returns an
\* error response and no operation error, changes no storage key and does
\* not invoke BuildCRL.
C1_InvalidInputNoEffect ==
    [][(Idle(1) /\ UserInvalid(hist'.pem, hist'.env)) =>
          /\ pc'[1] \in {"ret37", "ret46", "ret51", "ret55", "ret59", "ret63"}
          /\ resp'[1].kind = "error"
          /\ err'[1] = NoErr
          /\ storage' = storage
          /\ puts'[1] = <<>>
          /\ crlCalls'[1] = <<>>]_vars
C1_Witness ==
    /\ pc[1] = "ret63"
    /\ hist.pem.cert # NoCert /\ ~hist.pem.cert.isCA
    /\ storage[KeyCA] # <<>>
    /\ storage[KeyBundle] # <<>>

\* C2 as stated: whenever config/ca_bundle and ca both exist they describe
\* the same certificate.
C2_Original ==
    (storage[KeyBundle] # <<>> /\ storage[KeyCA] # <<>>) =>
        CertInBundle(storage[KeyBundle][1]) = storage[KeyCA][1]
\* C2 amended: whenever config/ca_bundle and ca both exist and were last
\* written by the same CA-write request, they describe the same certificate.
C2_SameRequestSameCert ==
    (storage[KeyBundle] # <<>> /\ storage[KeyCA] # <<>> /\ samePut) =>
        CertInBundle(storage[KeyBundle][1]) = storage[KeyCA][1]
C2_Witness ==
    /\ samePut
    /\ storage[KeyBundle] # <<>> /\ storage[KeyCA] # <<>>
    /\ pc[1] = "ret91"
    /\ pc[2] = "ret86"

\* C3: after a successful CA-write of a valid bundle B, ca holds exactly
\* B's certificate bytes and the certificate in the bundle at
\* config/ca_bundle is B's certificate.
C3_RoundTrip ==
    (pc[1] = "ret91" /\ err[1] = NoErr) =>
        /\ ValidPem(hist.pem)
        /\ storage[KeyCA] = <<LeafBytes(hist.pem)>>
        /\ storage[KeyBundle] # <<>>
        /\ CertInBundle(storage[KeyBundle][1]) = LeafBytes(hist.pem)
        /\ ParseCertificate(CertInBundle(storage[KeyBundle][1]))
              = [id |-> hist.pem.cert.id, IsCA |-> hist.pem.cert.isCA]
C3_Witness ==
    /\ pc[1] = "ret91" /\ err[1] = NoErr
    /\ hist.pre[KeyCA] # <<>>
    /\ hist.pre[KeyCA] # storage[KeyCA]

\* C4: a request whose two Puts both succeeded has invoked BuildCRL exactly
\* once, with forceRegenerate = true, when it returns; a request that failed
\* before or during either Put has not invoked it.
BothPutsOk(r) ==
    puts[r] = <<[key |-> KeyBundle, ok |-> TRUE], [key |-> KeyCA, ok |-> TRUE]>>
C4_CRLOncePerWrite ==
    \A r \in Requests :
        /\ pc[r] \in Returned =>
              IF BothPutsOk(r)
                THEN /\ Len(crlCalls[r]) = 1
                     /\ crlCalls[r][1].forceRegenerate
                ELSE crlCalls[r] = <<>>
        /\ pc[r] \notin Returned => crlCalls[r] = <<>>
C4_Witness ==
    /\ pc[1] = "ret91" /\ BothPutsOk(1) /\ Len(crlCalls[1]) = 1
    /\ pc[2] = "ret86" /\ crlCalls[2] = <<>>

\* C5: when BuildCRL fails, the request returns that error as an operation
\* error and config/ca_bundle and ca keep the values the request wrote.
CRLFailed(r) == crlCalls[r] # <<>> /\ ~crlCalls[r][1].ok
C5_CRLFailureNoRollback ==
    CRLFailed(1) =>
        /\ pc[1] = "ret91"
        /\ err[1] = CRLError
        /\ resp[1] = NilResp
        /\ storage[KeyBundle] = <<BundleValue(hist.pem)>>
        /\ storage[KeyCA] = <<LeafBytes(hist.pem)>>
C5_Witness ==
    /\ CRLFailed(1)
    /\ hist.pre[KeyCA] # <<>>
    /\ hist.pre[KeyCA] # storage[KeyCA]
    /\ hist.pre[KeyBundle] # storage[KeyBundle]

\* C6: when the Put of config/ca_bundle succeeds and the Put of ca fails,
\* the request returns an operation error, config/ca_bundle holds B's
\* bundle, ca is what it was before the request and BuildCRL is not invoked.
CAPutFailed(r) ==
    puts[r] = <<[key |-> KeyBundle, ok |-> TRUE], [key |-> KeyCA, ok |-> FALSE]>>
C6_CAPutFailure ==
    CAPutFailed(1) =>
        /\ pc[1] = "ret86"
        /\ err[1] = PutError
        /\ resp[1] = NilResp
        /\ storage[KeyBundle] = <<BundleValue(hist.pem)>>
        /\ storage[KeyCA] = hist.pre[KeyCA]
        /\ crlCalls[1] = <<>>
C6_Witness ==
    /\ CAPutFailed(1)
    /\ hist.pre[KeyCA] # <<>>
    /\ hist.pre[KeyCA] # <<LeafBytes(hist.pem)>>

\* C7: a successful CA-write of B directly after a CA-write of the same B
\* that failed at the Put of ca or at BuildCRL leaves config/ca_bundle and
\* ca as one successful CA-write of B leaves them.
RetryAfterPartial ==
    /\ hist.prev.valid
    /\ hist.prev.pem = hist.pem
    /\ \/ hist.prev.at = "ret86"
       \/ hist.prev.at = "ret91" /\ hist.prev.err # NoErr
C7_RetryRecovers ==
    (pc[1] = "ret91" /\ err[1] = NoErr /\ RetryAfterPartial) =>
        /\ storage[KeyBundle] = <<BundleValue(hist.pem)>>
        /\ storage[KeyCA] = <<LeafBytes(hist.pem)>>
C7_Witness ==
    /\ pc[1] = "ret91" /\ err[1] = NoErr /\ RetryAfterPartial
    /\ hist.prev.at = "ret86"
    /\ hist.pre[KeyCA] # <<>>
    /\ hist.pre[KeyCA] # storage[KeyCA]

\* C8: the second of two consecutive successful CA-writes of the same B
\* leaves config/ca_bundle and ca as the first left them.
SecondOfTwo ==
    /\ hist.prev.valid
    /\ hist.prev.pem = hist.pem
    /\ hist.prev.at = "ret91" /\ hist.prev.err = NoErr
C8_Idempotent ==
    (pc[1] = "ret91" /\ err[1] = NoErr /\ SecondOfTwo) =>
        /\ storage[KeyBundle] = hist.pre[KeyBundle]
        /\ storage[KeyCA] = hist.pre[KeyCA]
C8_Witness ==
    /\ pc[1] = "ret91" /\ err[1] = NoErr /\ SecondOfTwo
    /\ Len(puts[1]) = 2

\* C9: a request whose input fails validation returns at the earliest
\* failing step, with that step's error.
ReturnOfStep(i, pem, env) ==
    IF i = 1 THEN Out("ret37", ErrorResponse(MsgEmpty), NoErr)
    ELSE IF i = 2 THEN
        LET e == ParsePEMBundle(pem, env = "fault").err
        IN  IF env = "fault" THEN Out("ret44", NilResp, e)
            ELSE Out("ret46", ErrorResponse(e.msg), NoErr)
    ELSE IF i = 3 THEN Out("ret51", ErrorResponse(MsgNoKey), NoErr)
    ELSE IF i = 4 THEN Out("ret55", ErrorResponse(MsgUnknownKey), NoErr)
    ELSE IF i = 5 THEN Out("ret59", ErrorResponse(MsgNoCert), NoErr)
    ELSE Out("ret63", ErrorResponse(MsgNotCA), NoErr)
C9_FirstFailureWins ==
    (pc[1] # "idle" /\ FailedSteps(hist.pem, hist.env) # {}) =>
        LET want == ReturnOfStep(FirstFailed(hist.pem, hist.env),
                                 hist.pem, hist.env)
        IN  /\ pc[1] = want.pc
            /\ resp[1] = want.resp
            /\ err[1] = want.err
C9_Witness ==
    /\ pc[1] = "ret55"
    /\ FailedSteps(hist.pem, hist.env) = {4, 5}

\* C10: a PEM parse failure of internal kind is returned as an operation
\* error carrying the error itself and no response; any other parse failure
\* is returned as an error response carrying its message and no operation
\* error; the storage is unchanged in both cases.
ParseFails(pem, env) ==
    pem # EmptyPem /\ ParsePEMBundle(pem, env = "fault").err # NoErr
C10_ParseFailureKinds ==
    [][(Idle(1) /\ ParseFails(hist'.pem, hist'.env)) =>
          LET e == ParsePEMBundle(hist'.pem, hist'.env = "fault").err
          IN  /\ storage' = storage
              /\ IF e.kind = "internal"
                   THEN /\ err'[1] = e
                        /\ resp'[1] = NilResp
                        /\ pc'[1] = "ret44"
                   ELSE /\ resp'[1] = ErrorResponse(e.msg)
                        /\ err'[1] = NoErr
                        /\ pc'[1] = "ret46"]_vars
C10_Witness ==
    /\ pc[1] = "ret44"
    /\ err[1].kind = "internal"
    /\ storage[KeyBundle] # <<>>

\* The names and identifiers of the issuers that exist.
IssuerNames == {i.name : i \in issuers} \ {""}
IssuerIds == {i.id : i \in issuers}
\* The issuer a reference names or identifies.
IssuerOf(ref) == CHOOSE i \in issuers : ref # "" /\ (i.name = ref \/ i.id = ref)
StoredDefault == GetIssuersConfig(storage).DefaultIssuerId

C12_DefaultNeverStored ==
    storage[KeyIssuers] # <<>> => StoredDefault # DefaultRef
C12_Witness ==
    /\ iss.op = "write" /\ iss.resp.kind = "data"
    /\ iss.prevWrite # "" /\ iss.prevWrite # StoredDefault
    /\ storage[KeyIssuers] # <<>>

\* C13: when no storage operation fails, an issuer-config write of a name
\* or identifier of an existing issuer stores that issuer's identifier and
\* answers with it, and a read directly after it answers with the same.
C13_WriteResolvesThenRead ==
    /\ (/\ iss.op = "write" /\ iss.env = "ok"
        /\ iss.arg \in IssuerNames \cup IssuerIds) =>
          /\ storage[KeyIssuers] # <<>>
          /\ StoredDefault = IssuerOf(iss.arg).id
          /\ iss.resp = DataResponse(IssuerOf(iss.arg).id)
          /\ iss.err = NoErr
    /\ (iss.op = "read" /\ iss.env # "get" /\ iss.prevWrite # "") =>
          /\ iss.resp = DataResponse(iss.prevWrite)
          /\ iss.prevWrite = IssuerOf(iss.prevArg).id
          /\ iss.err = NoErr
C13_Witness ==
    /\ iss.op = "read"
    /\ iss.prevArg \in IssuerNames
    /\ iss.resp = DataResponse(IssuerOf(iss.prevArg).id)

\* C14: an issuer-config write whose value matches no issuer name and no
\* issuer identifier returns an error response and leaves config/issuers
\* as it was.
C14_UnknownReference ==
    [][(iss'.op = "write" /\ iss'.arg \notin IssuerNames \cup IssuerIds) =>
          /\ iss'.resp.kind = "error"
          /\ iss'.err = NoErr
          /\ storage' = storage]_vars
C14_Witness ==
    /\ iss.op = "write" /\ iss.arg = "no-such-issuer"
    /\ iss.env = "ok"
    /\ iss.resp.kind = "error"
    /\ StoredDefault \in IssuerIds

\* C15 as stated: in every handler a failure of a storage Put or Get is
\* returned as an operation error, not as an error response.
StorageFailedIn ==
    \/ iss.op = "read" /\ iss.env = "get"
    \/ /\ iss.op = "write" /\ iss.arg \notin {"", DefaultRef}
       /\ \/ iss.env = "get"
          \/ iss.env = "put" /\ iss.arg \in IssuerNames \cup IssuerIds
C15_Original ==
    /\ StorageFailedIn => (iss.err # NoErr /\ iss.resp.kind # "error")
    /\ \A r \in Requests :
          (puts[r] # <<>> /\ ~puts[r][Len(puts[r])].ok) =>
              (err[r] = PutError /\ resp[r] = NilResp)

\* The values a CA-write of a valid bundle writes whole.
WholeBundles == {BundleValue(pem) : pem \in {p \in PemBundles : ValidPem(p)}}
WholeCAs == {LeafBytes(pem) : pem \in {p \in PemBundles : ValidPem(p)}}
\* Request r has just had a Put succeed.
PutApplied(r) ==
    /\ Len(puts'[r]) > Len(puts[r])
    /\ puts'[r][Len(puts'[r])].ok
PutKey(r) == puts'[r][Len(puts'[r])].key
AllFinished == \A r \in Requests : Idle(r)

\* C16: concurrent CA-writes race per Put: a successful Put of a key leaves
\* the key holding the value of the request that made it, whatever another
\* request wrote there before, and no other key changes; a key changes by
\* such a Put only; and once all requests have finished each key holds a
\* value that one request wrote whole.
C16_LastWriterWins ==
    [][/\ \A r \in Requests :
            PutApplied(r) =>
                /\ PutKey(r) \in {KeyBundle, KeyCA}
                /\ storage'[PutKey(r)] = <<entry[r].Value>>
                /\ \A j \in StorageKeys \ {PutKey(r)} :
                        storage'[j] = storage[j]
       /\ storage' # storage => \E r \in Requests : PutApplied(r)
       /\ AllFinished' =>
            /\ \/ storage'[KeyBundle] = <<>>
               \/ storage'[KeyBundle][1] \in WholeBundles
            /\ \/ storage'[KeyCA] = <<>>
               \/ storage'[KeyCA][1] \in WholeCAs]_vars
C16_Witness ==
    /\ AllFinished
    /\ \A r \in Requests : BothPutsOk(r)
    /\ ~samePut
    /\ storage[KeyBundle] # <<>> /\ storage[KeyCA] # <<>>
    /\ CertInBundle(storage[KeyBundle][1]) # storage[KeyCA][1]

\* C17: within one CA-write the conversion comes before the Put of
\* config/ca_bundle, that Put before the Put of ca, and both before
\* BuildCRL; a request that failed at the conversion or at the Put of
\* config/ca_bundle has returned an operation error and left both keys as
\* they were, and ca is never written before config/ca_bundle.
C17_StrictOrder ==
    /\ puts[1] \in {<<>>,
                    <<[key |-> KeyBundle, ok |-> FALSE]>>,
                    <<[key |-> KeyBundle, ok |-> TRUE]>>,
                    <<[key |-> KeyBundle, ok |-> TRUE],
                      [key |-> KeyCA, ok |-> FALSE]>>,
                    <<[key |-> KeyBundle, ok |-> TRUE],
                      [key |-> KeyCA, ok |-> TRUE]>>}
    /\ puts[1] # <<>> => hist.env \notin {"conv", "json"}
    /\ crlCalls[1] # <<>> => BothPutsOk(1)
    /\ pc[1] = "put_bundle" => puts[1] = <<>>
    /\ pc[1] = "put_ca" => puts[1] = <<[key |-> KeyBundle, ok |-> TRUE]>>
    /\ pc[1] = "build_crl" => (BothPutsOk(1) /\ crlCalls[1] = <<>>)
    /\ pc[1] \in {"ret68", "ret73", "ret77"} =>
          /\ err[1].kind = "op"
          /\ resp[1] = NilResp
          /\ storage[KeyBundle] = hist.pre[KeyBundle]
          /\ storage[KeyCA] = hist.pre[KeyCA]
          /\ crlCalls[1] = <<>>
          /\ puts[1] = IF pc[1] = "ret77"
                         THEN <<[key |-> KeyBundle, ok |-> FALSE]>> ELSE <<>>
C17_Witness ==
    /\ pc[1] = "ret77"
    /\ hist.pre[KeyBundle] # <<>>
    /\ hist.pre[KeyBundle] # <<BundleValue(hist.pem)>>
    /\ hist.pre[KeyCA] # <<LeafBytes(hist.pem)>>

\* C18: in every reachable state a value held at config/ca_bundle or at ca
\* is the value of a submitted bundle that passed every validation step:
\* the certificate is marked CA and the private key is present and of a
\* known type.
C18_OnlyValidStored ==
    /\ storage[KeyCA] # <<>> =>
          /\ storage[KeyCA][1] \in WholeCAs
          /\ ParseCertificate(storage[KeyCA][1]).IsCA
    /\ storage[KeyBundle] # <<>> =>
          /\ storage[KeyBundle][1] \in WholeBundles
          /\ DecodeJSON(storage[KeyBundle][1]).PrivateKeyType \in KeyTypes
          /\ DecodeJSON(storage[KeyBundle][1]).PrivateKeyType
                # UnknownPrivateKey
          /\ ParseCertificate(CertInBundle(storage[KeyBundle][1])).IsCA
C18_Witness ==
    /\ storage[KeyBundle] # <<>> /\ storage[KeyCA] # <<>>
    /\ pc[1] = "ret63"
    /\ pc[2] = "ret55"

\* C19: config/issuers changes only in a successful issuer-config write
\* and never becomes absent; a step of CA-write leaves config/issuers as it
\* was; an issuer-config read changes no key; an issuer-config request
\* changes neither config/ca_bundle nor ca and does not invoke BuildCRL.
caVars == <<pc, parsedBundle, entry, resp, err, puts, crlCalls>>
C19_Frame ==
    [][/\ storage'[KeyIssuers] # storage[KeyIssuers] =>
            /\ iss'.op = "write" /\ iss'.resp.kind = "data"
            /\ caVars' = caVars
            /\ storage'[KeyIssuers] # <<>>
       /\ caVars' # caVars =>
            (storage'[KeyIssuers] = storage[KeyIssuers] /\ iss' = iss)
       /\ (storage'[KeyBundle] # storage[KeyBundle]
             \/ storage'[KeyCA] # storage[KeyCA]
             \/ crlCalls' # crlCalls) => (caVars' # caVars /\ iss' = iss)
       /\ (iss' # iss /\ iss'.op = "read") => storage' = storage]_vars
C19_Witness ==
    /\ iss.op = "read" /\ iss.resp.kind = "data" /\ iss.resp.msg # ""
    /\ pc[1] = "ret91"
    /\ storage[KeyBundle] # <<>> /\ storage[KeyCA] # <<>>
====
